---- MODULE Spec2Model ----
(***************************************************************************)
(* The in-memory banking ledger of banking-system.py: BankAccount,         *)
(* BankingSystem, and the BankingApp event handlers that drive them.       *)
(*                                                                         *)
(* Amounts are Python floats in the source.  The model uses integers: the  *)
(* values stay far below 2^53, where float addition and subtraction of     *)
(* integral values are exact.  Rounding, inf and nan are outside the model.*)
(***************************************************************************)
EXTENDS Integers, Sequences, FiniteSets, TLC

\* ------------------------------------------------------------------ bounds
\* 16^8 values of str(uuid.uuid4())[:8], scaled down
NumIds == 2
\* BankAccount objects constructed in one run
MaxCreated == 2
\* records in all transaction lists together
MaxTxns == 2
\* largest amount a direct caller of the ledger passes
MaxAmount == 1
\* readings of datetime.now() / date.today()
MaxTime == 1

Ids == 1..NumIds
Amounts == (0 - 1)..MaxAmount
Times == 0..MaxTime
Names == {"A"}
AccountTypes == {"Savings", "Checking"}

VARIABLES
    accounts,   \* BankingSystem.accounts: account_number -> BankAccount
    audit,      \* per ledger entry: what was asked of that BankAccount object
    created,    \* how many BankAccount objects were constructed
    issued,     \* the ids create_account has returned
    removed,    \* the ids delete_account has removed an entry for
    clock,      \* the system clock
    last        \* the last call or UI event: its arguments and its result

vars == <<accounts, audit, created, issued, removed, clock, last>>

\* None, and a reference, as results of dict.get / dict.pop
None == <<>>
Some(x) == <<x>>

\* ------------------------------------------------------------ BankAccount
\* a constructor that ignores initial_balance
BankAccount_zero_balance(account_number, account_holder_name, initial_balance, account_type, today) ==
    [account_number      |-> account_number,
     account_holder_name |-> account_holder_name,
     balance             |-> 0,
     account_type        |-> account_type,
     transactions        |-> <<>>,
     creation_date       |-> today]

BankAccount(account_number, account_holder_name, initial_balance, account_type, today) ==
    [account_number      |-> account_number,
     account_holder_name |-> account_holder_name,
     balance             |-> initial_balance,
     account_type        |-> account_type,
     transactions        |-> <<>>,
     creation_date       |-> today]

\* deposit with "=" for "+="
deposit_assigns(self, amount, now) ==
    LET balance == amount
    IN  [self |-> [self EXCEPT !.balance = balance,
                               !.transactions = Append(@, <<"Deposit", amount, now>>)],
         ret  |-> <<"Deposited", amount, balance>>]

\* deposit with insert(0, ...) for append
deposit_prepends(self, amount, now) ==
    LET balance == self.balance + amount
    IN  [self |-> [self EXCEPT !.balance = balance,
                               !.transactions = <<<<"Deposit", amount, now>>>> \o @],
         ret  |-> <<"Deposited", amount, balance>>]

deposit(self, amount, now) ==
    LET balance == self.balance + amount
    IN  [self |-> [self EXCEPT !.balance = balance,
                               !.transactions = Append(@, <<"Deposit", amount, now>>)],
         ret  |-> <<"Deposited", amount, balance>>]

\* withdraw with ">=" for ">"
withdraw_rejects_equal(self, amount, now) ==
    IF amount >= self.balance
    THEN [self |-> self, ret |-> <<"Insufficient funds.">>]
    ELSE LET balance == self.balance - amount
         IN  [self |-> [self EXCEPT !.balance = balance,
                                    !.transactions = Append(@, <<"Withdraw", 0 - amount, now>>)],
              ret  |-> <<"Withdrew", amount, balance>>]

\* withdraw that records the rejected attempt too
withdraw_logs_rejected(self, amount, now) ==
    IF amount > self.balance
    THEN [self |-> [self EXCEPT !.transactions = Append(@, <<"Withdraw", 0 - amount, now>>)],
          ret  |-> <<"Insufficient funds.">>]
    ELSE LET balance == self.balance - amount
         IN  [self |-> [self EXCEPT !.balance = balance,
                                    !.transactions = Append(@, <<"Withdraw", 0 - amount, now>>)],
              ret  |-> <<"Withdrew", amount, balance>>]

\* withdraw that records amount for -amount
withdraw_records_unsigned(self, amount, now) ==
    IF amount > self.balance
    THEN [self |-> self, ret |-> <<"Insufficient funds.">>]
    ELSE LET balance == self.balance - amount
         IN  [self |-> [self EXCEPT !.balance = balance,
                                    !.transactions = Append(@, <<"Withdraw", amount, now>>)],
              ret  |-> <<"Withdrew", amount, balance>>]

withdraw(self, amount, now) ==
    IF amount > self.balance
    THEN [self |-> self, ret |-> <<"Insufficient funds.">>]
    ELSE LET balance == self.balance - amount
         IN  [self |-> [self EXCEPT !.balance = balance,
                                    !.transactions = Append(@, <<"Withdraw", 0 - amount, now>>)],
              ret  |-> <<"Withdrew", amount, balance>>]

get_details(self) ==
    <<self.account_number, self.account_holder_name, self.account_type,
      self.balance, self.creation_date>>

transaction_history(self) ==
    IF self.transactions = <<>>
    THEN <<"No transactions yet.">>
    ELSE [i \in 1..Len(self.transactions) |->
            <<self.transactions[i][3], self.transactions[i][1], self.transactions[i][2]>>]

\* ---------------------------------------------------------- BankingSystem
\* self.accounts[key] = value
DictSet(d, key, value) ==
    [k \in DOMAIN d \cup {key} |-> IF k = key THEN value ELSE d[k]]

\* the dict without key
DictDel(d, key) ==
    [k \in DOMAIN d \ {key} |-> d[k]]

RECURSIVE TotalRecords(_, _)
TotalRecords(d, keys) ==
    IF keys = {} THEN 0
    ELSE LET k == CHOOSE x \in keys : TRUE
         IN  Len(d[k].transactions) + TotalRecords(d, keys \ {k})

\* room for one more record within the model's bound
RoomForRecord == TotalRecords(accounts, DOMAIN accounts) < MaxTxns

get_account(acc_number) ==
    IF acc_number \in DOMAIN accounts THEN Some(acc_number) ELSE None

\* the bookkeeping of a fresh BankAccount object
NewAudit(initial_balance) ==
    [initial       |-> initial_balance,
     ok_ops        |-> 0,
     deposited     |-> 0,
     only_deposits |-> TRUE]

\* uuid4 is random: id is any value of the id space
create_account(name, balance, account_type, id, today) ==
    LET acc == BankAccount(id, name, balance, account_type, today)
    IN  /\ created < MaxCreated
        /\ created' = created + 1
        /\ issued' = issued \cup {acc.account_number}
        /\ accounts' = DictSet(accounts, acc.account_number, acc)
        /\ audit' = DictSet(audit, acc.account_number, NewAudit(balance))
        /\ UNCHANGED removed

delete_account(acc_number) ==
    IF acc_number \in DOMAIN accounts
    THEN /\ accounts' = DictDel(accounts, acc_number)
         /\ audit' = DictDel(audit, acc_number)
         /\ removed' = removed \cup {acc_number}
         /\ UNCHANGED <<created, issued>>
    ELSE UNCHANGED <<accounts, audit, created, issued, removed>>

\* account.deposit(amount) on the entry acc_number
account_deposit(acc_number, amount, now) ==
    LET r == deposit(accounts[acc_number], amount, now)
    IN  /\ RoomForRecord
        /\ accounts' = [accounts EXCEPT ![acc_number] = r.self]
        /\ audit' = [audit EXCEPT ![acc_number].ok_ops = @ + 1,
                                  ![acc_number].deposited = @ + amount]
        /\ UNCHANGED <<created, issued, removed>>

\* account.withdraw(amount) on the entry acc_number
account_withdraw(acc_number, amount, now) ==
    LET r == withdraw(accounts[acc_number], amount, now)
    IN  /\ RoomForRecord
        /\ accounts' = [accounts EXCEPT ![acc_number] = r.self]
        /\ audit' = [audit EXCEPT
                        ![acc_number].ok_ops =
                            IF r.ret = <<"Insufficient funds.">> THEN @ ELSE @ + 1,
                        ![acc_number].only_deposits = FALSE]
        /\ UNCHANGED <<created, issued, removed>>

\* ------------------------------------------------- the ledger, called directly
\* datetime.now() / date.today(): the clock never runs backwards
Readings == {t \in Times : t >= clock}

Call(op, acc, amount, ret) ==
    [op |-> op, acc |-> acc, amount |-> amount, ret |-> ret]

Init ==
    /\ accounts = <<>>
    /\ audit = <<>>
    /\ created = 0
    /\ issued = {}
    /\ removed = {}
    /\ clock = 0
    /\ last = Call("init", 0, 0, None)

CreateAccount ==
    \E name \in Names, balance \in Amounts, ty \in AccountTypes, id \in Ids, today \in Readings :
        /\ clock' = today
        /\ create_account(name, balance, ty, id, today)
        /\ last' = Call("create_account", id, balance, Some(id))

GetAccount ==
    \E id \in Ids :
        /\ last' = Call("get_account", id, 0, get_account(id))
        /\ UNCHANGED <<accounts, audit, created, issued, removed, clock>>

DeleteAccount ==
    \E id \in Ids :
        /\ delete_account(id)
        /\ UNCHANGED clock
        /\ last' = Call("delete_account", id, 0, get_account(id))

Deposit ==
    \E id \in DOMAIN accounts, amount \in Amounts, now \in Readings :
        /\ clock' = now
        /\ account_deposit(id, amount, now)
        /\ last' = Call("deposit", id, amount, deposit(accounts[id], amount, now).ret)

Withdraw ==
    \E id \in DOMAIN accounts, amount \in Amounts, now \in Readings :
        /\ clock' = now
        /\ account_withdraw(id, amount, now)
        /\ last' = Call("withdraw", id, amount, withdraw(accounts[id], amount, now).ret)

GetDetails ==
    \E id \in DOMAIN accounts :
        /\ last' = Call("get_details", id, 0, get_details(accounts[id]))
        /\ UNCHANGED <<accounts, audit, created, issued, removed, clock>>

TransactionHistory ==
    \E id \in DOMAIN accounts :
        /\ last' = Call("transaction_history", id, 0, transaction_history(accounts[id]))
        /\ UNCHANGED <<accounts, audit, created, issued, removed, clock>>

Next ==
    \/ CreateAccount
    \/ GetAccount
    \/ DeleteAccount
    \/ Deposit
    \/ Withdraw
    \/ GetDetails
    \/ TransactionHistory

Spec == Init /\ [][Next]_vars

\* ------------------------------------------------------- BankingApp (the UI)
\* characters a QLineEdit can hold: ASCII digits, a sign, and U+00B2, which
\* str.isdigit accepts and float rejects
AsciiDigits == {"0", "1"}
SuperscriptDigits == {"sup2"}
Chars == AsciiDigits \cup SuperscriptDigits \cup {"-"}
\* the texts typed into the amount fields: empty, zero, positive, several
\* digits, signed, a non-ASCII digit
Texts == {<<>>, <<"0">>, <<"1">>, <<"0", "1">>, <<"-", "1">>, <<"sup2">>}
NameTexts == {"", "A"}
\* the account number field: a generated id, or 0 for any other text
AccTexts == 0..NumIds

\* str.isdigit: non-empty and every character a digit
isdigit(text) ==
    /\ Len(text) > 0
    /\ \A i \in 1..Len(text) : text[i] \in AsciiDigits \cup SuperscriptDigits

DigitValue(c) == IF c = "0" THEN 0 ELSE 1

RECURSIVE Decimal(_)
Decimal(digits) ==
    IF digits = <<>> THEN 0
    ELSE 10 * Decimal(SubSeq(digits, 1, Len(digits) - 1)) + DigitValue(digits[Len(digits)])

\* float(text): an optional sign and ASCII digits give the value, anything
\* else raises ValueError
float(text) ==
    LET signed == Len(text) > 0 /\ text[1] = "-"
        digits == IF signed THEN SubSeq(text, 2, Len(text)) ELSE text
    IN  IF Len(digits) > 0 /\ \A i \in 1..Len(digits) : digits[i] \in AsciiDigits
        THEN [ok |-> TRUE, value |-> IF signed THEN 0 - Decimal(digits) ELSE Decimal(digits)]
        ELSE [ok |-> FALSE, value |-> 0]

\* the text is one or more ASCII digits
DecimalText(text) ==
    Len(text) > 0 /\ \A i \in 1..Len(text) : text[i] \in AsciiDigits

\* a UI event: the name field, whether the amount field held a decimal text,
\* the account number field, the amounts handed to the ledger, what was shown
Event(op, name, text, acc, passed, shown) ==
    [op |-> op, name |-> name, decimal |-> DecimalText(text), acc |-> acc,
     passed |-> passed, shown |-> shown]

ledger == <<accounts, audit, created, issued, removed>>

\* line 148: if not name or not balance.isdigit()
create_account_rejects(name, balance) ==
    name = "" \/ ~isdigit(balance)

\* a handler that lost its isdigit test
process_transaction_rejects_nothing(amount_text) ==
    FALSE

\* line 176: if not amount_text.isdigit()
process_transaction_rejects(amount_text) ==
    ~isdigit(amount_text)

UICreateAccount ==
    \E name \in NameTexts, balance \in Texts, acc_type \in AccountTypes :
        IF create_account_rejects(name, balance)
        THEN /\ last' = Event("create_account", name, balance, 0, <<>>, <<"Invalid input!">>)
             /\ UNCHANGED <<ledger, clock>>
        ELSE IF ~float(balance).ok
        THEN /\ last' = Event("create_account", name, balance, 0, <<>>, <<"ValueError">>)
             /\ UNCHANGED <<ledger, clock>>
        ELSE \E id \in Ids, today \in Readings :
                /\ clock' = today
                /\ create_account(name, float(balance).value, acc_type, id, today)
                /\ last' = Event("create_account", name, balance, id,
                                 <<float(balance).value>>, <<"Account Created!", id>>)

process_transaction(txn_type, acc_number, amount_text) ==
        IF process_transaction_rejects(amount_text)
        THEN /\ last' = Event(txn_type, "", amount_text, acc_number, <<>>, <<"Invalid amount!">>)
             /\ UNCHANGED <<ledger, clock>>
        ELSE IF get_account(acc_number) = None
        THEN /\ last' = Event(txn_type, "", amount_text, acc_number, <<>>, <<"Account not found!">>)
             /\ UNCHANGED <<ledger, clock>>
        ELSE IF ~float(amount_text).ok
        THEN /\ last' = Event(txn_type, "", amount_text, acc_number, <<>>, <<"ValueError">>)
             /\ UNCHANGED <<ledger, clock>>
        ELSE LET amount == float(amount_text).value
             IN  \E now \in Readings :
                    /\ clock' = now
                    /\ IF txn_type = "Deposit"
                       THEN /\ account_deposit(acc_number, amount, now)
                            /\ last' = Event(txn_type, "", amount_text, acc_number, <<amount>>,
                                             deposit(accounts[acc_number], amount, now).ret)
                       ELSE /\ account_withdraw(acc_number, amount, now)
                            /\ last' = Event(txn_type, "", amount_text, acc_number, <<amount>>,
                                             withdraw(accounts[acc_number], amount, now).ret)

UIDeposit ==
    \E acc_number \in AccTexts, amount_text \in Texts :
        process_transaction("Deposit", acc_number, amount_text)

UIWithdraw ==
    \E acc_number \in AccTexts, amount_text \in Texts :
        process_transaction("Withdraw", acc_number, amount_text)

UIShowAccountDetails ==
    \E acc_number \in AccTexts :
        /\ last' = Event("show_account_details", "", <<>>, acc_number, <<>>,
                         IF get_account(acc_number) = None
                         THEN <<"Account not found!">>
                         ELSE get_details(accounts[acc_number]))
        /\ UNCHANGED <<ledger, clock>>

NextUI ==
    \/ UICreateAccount
    \/ UIDeposit
    \/ UIWithdraw
    \/ UIShowAccountDetails

SpecUI == Init /\ [][NextUI]_vars

\* ------------------------------------------------------------------ claims
RECURSIVE SumAmounts(_)
SumAmounts(transactions) ==
    IF transactions = <<>> THEN 0
    ELSE transactions[1][2] + SumAmounts(Tail(transactions))

IsPrefix(s, t) ==
    Len(s) <= Len(t) /\ SubSeq(t, 1, Len(s)) = s

Records(id) == accounts[id].transactions

\* C1: every account's balance is >= 0 in every reachable state of the ledger.
C1_BalanceNonNegative ==
    \A id \in DOMAIN accounts : accounts[id].balance >= 0

\* C2: withdraw(amount) with amount <= balance lowers the balance by exactly
\* amount; with amount > balance it returns "Insufficient funds." and changes
\* neither the balance nor the transaction list.
C2_WithdrawGuarded ==
    [][last'.op = "withdraw" =>
        LET id == last'.acc
            amount == last'.amount
        IN  IF amount <= accounts[id].balance
            THEN accounts'[id].balance = accounts[id].balance - amount
            ELSE /\ last'.ret = <<"Insufficient funds.">>
                 /\ accounts'[id].balance = accounts[id].balance
                 /\ accounts'[id].transactions = accounts[id].transactions]_vars

\* a rejected withdraw on an account that an earlier withdraw was paid from
C2_Witness ==
    /\ last.op = "withdraw"
    /\ last.ret = <<"Insufficient funds.">>
    /\ \E i \in 1..Len(Records(last.acc)) :
          Records(last.acc)[i][1] = "Withdraw" /\ Records(last.acc)[i][2] < 0

\* C3: the id create_account returns differs from every id an earlier
\* create_account returned, so the call replaces no entry and adds exactly one.
C3_IdsNeverReused ==
    [][created' = created + 1 =>
        /\ last'.acc \notin issued
        /\ Cardinality(DOMAIN accounts') = Cardinality(DOMAIN accounts) + 1]_vars

\* C4: the length of an account's transaction list is the number of deposit
\* and withdraw calls on it that succeeded; a rejected withdraw adds nothing.
C4_HistoryCountsSuccesses ==
    \A id \in DOMAIN accounts : Len(Records(id)) = audit[id].ok_ops

\* a rejected withdraw on an account with a record
C4_Witness ==
    /\ last.op = "withdraw"
    /\ last.ret = <<"Insufficient funds.">>
    /\ audit[last.acc].ok_ops >= 1

\* C5: after deposits only, the balance is the initial balance plus the sum of
\* the deposited amounts, and every deposit call succeeds.
C5_DepositsAddUp ==
    /\ \A id \in DOMAIN accounts :
          audit[id].only_deposits =>
              accounts[id].balance = audit[id].initial + audit[id].deposited
    /\ last.op = "deposit" => last.ret[1] = "Deposited"

\* two deposits, nothing else, on an account opened with a balance
C5_Witness ==
    \E id \in DOMAIN accounts :
        /\ audit[id].only_deposits
        /\ audit[id].initial # 0
        /\ audit[id].ok_ops = 2
        /\ audit[id].deposited # 0

\* C6: once delete_account(id) has removed an account, get_account(id) returns
\* None in every later state.
C6_DeletedStaysAbsent ==
    \A id \in removed : get_account(id) = None

\* C7: across every operation the transaction list of an account before the
\* step is a prefix of its list after the step.  (An entry that create_account
\* has just stored is a new account, not the one that was there.)
C7_HistoryAppendOnly ==
    [][\A id \in DOMAIN accounts \cap DOMAIN accounts' :
          (created' = created \/ last'.acc # id) =>
              IsPrefix(accounts[id].transactions, accounts'[id].transactions)]_vars

\* a deposit onto an account that already had a different record
C7_Witness ==
    /\ last.op = "deposit"
    /\ Len(Records(last.acc)) = 2
    /\ Records(last.acc)[1] # Records(last.acc)[2]

\* C8 as stated: every Deposit record has an amount > 0 and every Withdraw
\* record an amount < 0.
C8_SignsStrict ==
    \A id \in DOMAIN accounts : \A i \in 1..Len(Records(id)) :
        /\ Records(id)[i][1] = "Deposit" => Records(id)[i][2] > 0
        /\ Records(id)[i][1] = "Withdraw" => Records(id)[i][2] < 0

\* C8 as amended: with the amounts the UI handlers pass, every Deposit record
\* has an amount >= 0 and every Withdraw record an amount <= 0.
C8_SignsWeak ==
    \A id \in DOMAIN accounts : \A i \in 1..Len(Records(id)) :
        /\ Records(id)[i][1] \in {"Deposit", "Withdraw"}
        /\ Records(id)[i][1] = "Deposit" => Records(id)[i][2] >= 0
        /\ Records(id)[i][1] = "Withdraw" => Records(id)[i][2] <= 0

\* a deposit of zero next to a withdrawal of a positive amount
C8_Witness ==
    \E id \in DOMAIN accounts :
        /\ \E i \in 1..Len(Records(id)) :
              Records(id)[i][1] = "Deposit" /\ Records(id)[i][2] = 0
        /\ \E i \in 1..Len(Records(id)) :
              Records(id)[i][1] = "Withdraw" /\ Records(id)[i][2] < 0

\* C9: a create-account event with an empty name or a balance text that is not
\* a decimal number, and a deposit or withdraw event with such an amount text
\* or an unknown account number, leave the accounts as they were; every amount
\* a handler passes to the ledger is >= 0.
C9_InvalidInputStopsAtUI ==
    [][/\ (last'.op = "create_account" /\ (last'.name = "" \/ ~last'.decimal))
            => accounts' = accounts
       /\ (last'.op \in {"Deposit", "Withdraw"}
              /\ (~last'.decimal \/ last'.acc \notin DOMAIN accounts))
            => accounts' = accounts
       /\ \A i \in 1..Len(last'.passed) : last'.passed[i] >= 0]_vars

\* a withdraw event with a bad amount text on an account that holds money
C9_Witness ==
    /\ last.op = "Withdraw"
    /\ ~last.decimal
    /\ last.acc \in DOMAIN accounts
    /\ accounts[last.acc].balance > 0
    /\ Len(Records(last.acc)) > 0

\* C10: each account's balance is its initial balance plus the sum of the
\* signed amounts of its transaction records.
C10_BalanceMatchesHistory ==
    \A id \in DOMAIN accounts :
        accounts[id].balance = audit[id].initial + SumAmounts(Records(id))

\* an account opened with a balance, with a deposit and a withdrawal on record
C10_Witness ==
    \E id \in DOMAIN accounts :
        /\ audit[id].initial # 0
        /\ Len(Records(id)) = 2
        /\ Records(id)[1][1] # Records(id)[2][1]
        /\ Records(id)[1][2] # 0
        /\ Records(id)[2][2] # 0
====
